---- MODULE Spec2Model ----
(***************************************************************************)
(* Model of src/src/pty/tokio.rs: AsyncPty (AsyncRead / AsyncWrite over a  *)
(* tokio AsyncFd<File>) and the Pty lifecycle (new, pts, resize, drop).    *)
(*                                                                         *)
(* A poll is a sequence of steps of one running call: the readiness wait   *)
(* (poll_read_ready / poll_write_ready) and the guarded attempt (try_io).  *)
(* poll_* take Pin<&mut Self>, so at most one poll runs at a time          *)
(* (variable running); reactor events and the slave side of the PTY act    *)
(* between any two steps.                                                  *)
(***************************************************************************)
EXTENDS Integers, Sequences, FiniteSets, TLC

\* ---------------------------------------------------------------- bounds
\* The scratch buffer of poll_read is [0_u8; 4096]; the model scales the
\* chunk down so that reads longer than, equal to and shorter than one
\* chunk all occur with byte sequences TLC can enumerate.
ChunkSize == 2
\* Largest capacity of a caller's ReadBuf (chosen > ChunkSize).
MaxCap == 3
\* Number of bytes the slave side writes over a run.
MaxBytes == 3
\* Longest payload handed to poll_write.
MaxPayload == 2
\* Room of the kernel's buffer towards the slave.
MaxSpace == 1

\* ------------------------------------------------------------ vocabulary
Dirs == {"r", "w"}
EAGAIN == "EAGAIN"
\* definitive errors of read / write / flush on the descriptor
IoErrs == {"EIO"}
\* errors of the readiness wait itself (the reactor is gone)
WaitErrs == {"ESHUTDOWN"}

Min(a, b) == IF a <= b THEN a ELSE b

Ok(n) == [k |-> "Ok", n |-> n, e |-> ""]
Err(e) == [k |-> "Err", n |-> 0, e |-> e]
Pending == [k |-> "Pending", n |-> 0, e |-> ""]
Panic == [k |-> "Panic", n |-> 0, e |-> ""]
NoRes == [k |-> "None", n |-> 0, e |-> ""]

\* ----------------------------------------------------- descriptor flags
O_NONBLOCK == "O_NONBLOCK"
\* file status flags that fcntl(F_SETFL) can change
SettableFlags == {"O_APPEND", "O_NONBLOCK"}
\* flag sets the PTY opener may leave on the master descriptor; O_LARGEFILE
\* is the bit F_GETFL reports that OFlag::from_bits rejects as unknown
OpenerFlagSets ==
    { {"O_RDWR", "O_NOCTTY"},
      {"O_RDWR", "O_NOCTTY", "O_LARGEFILE"},
      {"O_RDWR", "O_APPEND", "O_LARGEFILE"},
      {"O_RDWR", "O_NOCTTY", "O_NONBLOCK"} }

VARIABLES
    session,      \* "None" | "Open" | "Failed" | "Closed"
    fd,           \* the master descriptor: state, owner, flags, closes
    ctor,         \* what Pty::new did: OS calls in order, opener flags, error
    reg,          \* reactor registration: registered, flags seen at register
    ready,        \* reactor's readiness belief per direction
    waker,        \* a task waker is stored for the direction
    slave,        \* slave device: node exists, handles opened, terminal size
    inq,          \* bytes the master can read (written by the slave)
    produced,     \* number of bytes the slave has written so far
    dev,          \* slave side: "ok" | "eof" | "err"
    outq,         \* bytes the kernel accepted from the master
    rd,           \* read call: st, res
    rbuf,         \* the caller's ReadBuf: cap, data (initialized), filled
    wr,           \* write-side call: kind, st, res, payload
    running,      \* the poll being executed: op, pc
    last          \* the last step: op, OS return value, bytes moved

vars == <<session, fd, ctor, reg, ready, waker, slave, inq, produced, dev,
          outq, rd, rbuf, wr, running, last>>

lifeVars == <<session, fd, ctor, reg>>
osVars == <<inq, produced, dev, outq, slave>>
reactorVars == <<ready, waker>>

Idle == [op |-> "none", pc |-> "none"]
At(op, pc) == [op |-> op, pc |-> pc]
Step(op, ret, moved) == [op |-> op, ret |-> ret, moved |-> moved]

Init ==
    /\ session = "None"
    /\ fd = [state |-> "unopened", owner |-> "none", flags |-> {}, closes |-> 0]
    /\ ctor = [log |-> <<>>, opener |-> {}, err |-> "none"]
    /\ reg = [registered |-> FALSE, flags |-> {}]
    /\ ready = [d \in Dirs |-> FALSE]
    /\ waker = [d \in Dirs |-> FALSE]
    /\ inq = <<>>
    /\ produced = 0
    /\ dev = "ok"
    /\ outq = <<>>
    /\ rd = [st |-> "none", res |-> NoRes]
    /\ rbuf = [cap |-> 0, data |-> <<>>, filled |-> 0]
    /\ wr = [kind |-> "none", st |-> "none", res |-> NoRes, payload |-> <<>>]
    /\ running = Idle
    /\ slave = [node |-> FALSE, opens |-> 0, handles |-> 0, size |-> <<0, 0>>]
    /\ last = Step("init", NoRes, <<>>)

\* ------------------------------------------------------------- Pty::new
Stages == <<"create_pt", "F_GETFL", "F_SETFL", "register">>

\* the new flag set built from O_NONBLOCK alone
OrNonblockOnly(bits) == {O_NONBLOCK}
\* bits | O_NONBLOCK.bits()
OrNonblock(bits) == bits \cup {O_NONBLOCK}

\* OFlag::from_bits_unchecked keeps every bit, named or not
FromBitsUnchecked(bits) == bits

\* what fcntl(fd, F_SETFL(opts)) leaves on a descriptor that had flags old
SetFl(old, opts) == (old \ SettableFlags) \cup (opts \cap SettableFlags)

\* a construct that does not look at the result of F_GETFL
FailPosSkipGetfl(fail) ==
    IF fail \in {"none", "F_GETFL"} THEN 5
    ELSE CHOOSE i \in 1..4 : Stages[i] = fail

\* Position of the first failing step; 5 when every step succeeds.
\* fail is the stage the environment makes fail, or "none".
FailPos(fail) ==
    IF fail = "none" THEN 5
    ELSE CHOOSE i \in 1..4 : Stages[i] = fail

\* Pty::new, lines 103-132, as one call. flags0 are the flags the opener
\* left on the descriptor, fail the first OS call that fails.
New(flags0, fail) ==
    LET p == FailPos(fail)
        log == SubSeq(Stages, 1, Min(p, 4))
        bits == flags0                                   \* F_GETFL
        opts == FromBitsUnchecked(OrNonblock(bits))
        flags1 == SetFl(flags0, opts)                    \* F_SETFL
    IN  /\ session = "None"
        /\ ctor' = [log |-> log, opener |-> IF p > 1 THEN flags0 ELSE {},
                    err |-> fail]
        /\ IF p = 1 THEN
              \* create_pt()? : no descriptor was produced
              /\ fd' = fd
              /\ reg' = reg
              /\ session' = "Failed"
           ELSE IF p \in {2, 3} THEN
              \* fcntl(...)? returns early; pt_fd is a RawFd, nothing owns
              \* it and nothing closes it
              /\ fd' = [state |-> "open", owner |-> "none",
                        flags |-> flags0, closes |-> 0]
              /\ reg' = reg
              /\ session' = "Failed"
           ELSE IF p = 4 THEN
              \* File::from_raw_fd took the descriptor; AsyncFd::new failed
              \* and dropped the File it was given, which closes it
              /\ fd' = [state |-> "closed", owner |-> "none",
                        flags |-> flags1, closes |-> 1]
              /\ reg' = reg
              /\ session' = "Failed"
           ELSE
              /\ fd' = [state |-> "open", owner |-> "AsyncFd",
                        flags |-> flags1, closes |-> 0]
              /\ reg' = [registered |-> TRUE, flags |-> flags1]
              /\ session' = "Open"
        /\ slave' = [slave EXCEPT !.node = (p > 1)]
        /\ last' = Step("new", IF fail = "none" THEN Ok(0) ELSE Err(fail), <<>>)
        /\ UNCHANGED <<reactorVars, inq, produced, dev, outq, rd, rbuf, wr,
                       running>>

\* Dropping the Pty drops AsyncPty -> AsyncFd -> File: deregister, close.
Drop ==
    /\ session = "Open"
    /\ running = Idle
    /\ session' = "Closed"
    /\ fd' = [fd EXCEPT !.state = "closed", !.owner = "none",
                        !.closes = fd.closes + 1]
    /\ reg' = [reg EXCEPT !.registered = FALSE]
    /\ rd' = [rd EXCEPT !.st = IF rd.st \in {"new", "pending"}
                               THEN "none" ELSE rd.st]
    /\ wr' = [wr EXCEPT !.st = IF wr.st \in {"new", "pending"}
                               THEN "none" ELSE wr.st]
    /\ waker' = [d \in Dirs |-> FALSE]
    /\ last' = Step("drop", NoRes, <<>>)
    /\ UNCHANGED <<ctor, ready, osVars, rbuf, running>>

\* ------------------------------------------------------- tokio::ReadBuf
\* A ReadBuf of capacity cap whose first Len(data) bytes are initialized
\* and whose first filled bytes are filled. ok = FALSE: the call panicked.
Filled(b) == SubSeq(b.data, 1, b.filled)
Zeros(n) == [i \in 1..n |-> 0]

\* buf.clear()
Clear(b) == [b EXCEPT !.filled = 0]

\* buf.initialize_unfilled_to(n): asserts n <= remaining()
InitializeUnfilledTo(b, n) ==
    IF n > b.cap - b.filled
    THEN [ok |-> FALSE, buf |-> b]
    ELSE [ok |-> TRUE,
          buf |-> [b EXCEPT !.data =
                      IF Len(b.data) >= b.filled + n THEN b.data
                      ELSE b.data \o Zeros(b.filled + n - Len(b.data))]]

\* buf.set_filled(n): asserts n <= initialized
SetFilled(b, n) ==
    IF n > Len(b.data)
    THEN [ok |-> FALSE, buf |-> b]
    ELSE [ok |-> TRUE, buf |-> [b EXCEPT !.filled = n]]

\* buf.filled_mut().copy_from_slice(src): asserts equal lengths
CopyFromSlice(b, src) ==
    IF Len(src) # b.filled
    THEN [ok |-> FALSE, buf |-> b]
    ELSE [ok |-> TRUE,
          buf |-> [b EXCEPT !.data =
                      src \o SubSeq(b.data, b.filled + 1, Len(b.data))]]

\* lines 46-49 of poll_read, with the bytes the OS read put in b[..bytes]
FillBuf(b, bytes) ==
    LET n == Len(bytes)
        b1 == Clear(b)
        r2 == InitializeUnfilledTo(b1, n)
        r3 == SetFilled(r2.buf, n)
        r4 == CopyFromSlice(r3.buf, bytes)
    IN  IF ~r2.ok THEN r2
        ELSE IF ~r3.ok THEN r3
        ELSE r4

\* ------------------------------------------------ the descriptor (OS side)
\* read(fd, b, count) on the non-blocking master
OsRead(q, d, count) ==
    IF q # <<>> THEN Ok(Min(Len(q), count))
    ELSE IF d = "eof" THEN Ok(0)
    ELSE IF d = "err" THEN Err("EIO")
    ELSE Err(EAGAIN)

\* write(fd, payload) on the non-blocking master, q the kernel's buffer
OsWrite(payload, q, d) ==
    IF d = "err" THEN Err("EIO")
    ELSE IF payload = <<>> THEN Ok(0)
    ELSE IF Len(q) >= MaxSpace THEN Err(EAGAIN)
    ELSE Ok(Min(Len(payload), MaxSpace - Len(q)))

\* results the flush primitive may hand to the closure of try_io
FlushRets == {Ok(0), Err(EAGAIN)} \cup {Err(e) : e \in IoErrs}

\* ------------------------------------------------------ tokio::AsyncFd
\* direction each operation hands to the reactor
\* a read that waits for the write direction
ReadInterestWrite == "w"
ReadInterest == "r"
\* one wait path for both directions
WriteInterestShared == "r"
WriteInterest == "w"
\* a flush that waits for the read direction
FlushInterestRead == "r"
FlushInterest == "w"

\* guard.try_io: the closure's WouldBlock is turned into Err(TryIoError)
\* and clears the readiness of the guard's direction
\* try_io that hands WouldBlock to the match like any other error
IsWouldBlockNever(ret) == FALSE
\* try_io that takes every error for a readiness miss
IsWouldBlockAnyErr(ret) == ret.k = "Err"
\* try_io that also takes a read of 0 bytes for a readiness miss
IsWouldBlockOrZero(ret) ==
    (ret.k = "Err" /\ ret.e = EAGAIN) \/ (ret.k = "Ok" /\ ret.n = 0)
\* a loop that also goes round until a whole chunk was moved at once
IsWouldBlockUntilFull(ret) ==
    \/ (ret.k = "Err" /\ ret.e = EAGAIN)
    \/ (ret.k = "Ok" /\ ret.n > 0 /\ ret.n < ChunkSize)
IsWouldBlock(ret) == ret.k = "Err" /\ ret.e = EAGAIN

\* a would-block that wipes the belief of both directions
ClearReadyAll(d) == [e \in Dirs |-> FALSE]
\* a would-block that leaves the belief as it is
ClearReadyNone(d) == ready
ClearReady(d) == [ready EXCEPT ![d] = FALSE]

\* -------------------------------------------------------------- callers
Payloads == { [i \in 1..n |-> 10 + i] : n \in 0..MaxPayload }
Prefill(n) == [i \in 1..n |-> 90 + i]

\* The caller creates a read with a ReadBuf of capacity cap whose first
\* pre bytes are already filled.
StartRead(cap, pre) ==
    /\ session = "Open"
    /\ rd.st \in {"none", "done"}
    /\ rd' = [st |-> "new", res |-> NoRes]
    /\ rbuf' = [cap |-> cap, data |-> Prefill(pre), filled |-> pre]
    /\ last' = Step("start_read", NoRes, <<>>)
    /\ UNCHANGED <<lifeVars, reactorVars, osVars, wr, running>>

StartWrite(payload) ==
    /\ session = "Open"
    /\ wr.st \in {"none", "done"}
    /\ wr' = [kind |-> "write", st |-> "new", res |-> NoRes,
              payload |-> payload]
    /\ last' = Step("start_write", NoRes, <<>>)
    /\ UNCHANGED <<lifeVars, reactorVars, osVars, rd, rbuf, running>>

StartFlush ==
    /\ session = "Open"
    /\ wr.st \in {"none", "done"}
    /\ wr' = [kind |-> "flush", st |-> "new", res |-> NoRes,
              payload |-> <<>>]
    /\ last' = Step("start_flush", NoRes, <<>>)
    /\ UNCHANGED <<lifeVars, reactorVars, osVars, rd, rbuf, running>>

\* --------------------------------------------------- AsyncPty::poll_read
\* a scratch buffer larger than everything the descriptor can hold
ScratchLenAll == MaxBytes + 1
\* line 42: let mut b = [0_u8; 4096], one chunk
ScratchLen == ChunkSize

\* The task polls its read future: entry of poll_read.
PollRead ==
    /\ session = "Open"
    /\ running = Idle
    /\ rd.st \in {"new", "pending"}
    /\ running' = [op |-> "read", pc |-> "wait"]
    /\ last' = Step("poll_read", NoRes, <<>>)
    /\ UNCHANGED <<lifeVars, ready, waker, osVars, rd, rbuf, wr>>

\* line 41: futures::ready!(self.0.poll_read_ready(cx))?
ReadWait(werr) ==
    /\ running = [op |-> "read", pc |-> "wait"]
    /\ IF werr # "none" THEN
          /\ rd' = [st |-> "done", res |-> Err(werr)]
          /\ running' = Idle
          /\ waker' = waker
       ELSE IF ready[ReadInterest] THEN
          /\ running' = [op |-> "read", pc |-> "attempt"]
          /\ UNCHANGED <<rd, waker>>
       ELSE
          /\ waker' = [waker EXCEPT ![ReadInterest] = TRUE]
          /\ rd' = [st |-> "pending", res |-> Pending]
          /\ running' = Idle
    /\ last' = Step("read_wait", IF werr # "none" THEN Err(werr) ELSE NoRes, <<>>)
    /\ UNCHANGED <<lifeVars, ready, osVars, rbuf, wr>>

\* lines 42-54: the guarded read of one chunk and the match on its result
ReadAttempt ==
    /\ running = [op |-> "read", pc |-> "attempt"]
    /\ LET ret == OsRead(inq, dev, ScratchLen)
           bytes == SubSeq(inq, 1, ret.n)
           f == FillBuf(rbuf, bytes)
       IN  /\ inq' = SubSeq(inq, ret.n + 1, Len(inq))
           /\ last' = Step("read_attempt", ret, bytes)
           /\ IF IsWouldBlock(ret) THEN
                 \* Err(_would_block) => continue
                 /\ ready' = ClearReady(ReadInterest)
                 /\ running' = [op |-> "read", pc |-> "wait"]
                 /\ UNCHANGED <<rd, rbuf>>
              ELSE IF ret.k = "Ok" THEN
                 /\ rbuf' = IF f.ok THEN f.buf ELSE Clear(rbuf)
                 /\ rd' = [st |-> "done",
                           res |-> IF f.ok THEN Ok(ret.n) ELSE Panic]
                 /\ running' = Idle
                 /\ ready' = ready
              ELSE
                 \* Ok(Err(e)) => return Ready(Err(e))
                 /\ rd' = [st |-> "done", res |-> ret]
                 /\ running' = Idle
                 /\ UNCHANGED <<ready, rbuf>>
    /\ UNCHANGED <<lifeVars, waker, produced, dev, outq, slave, wr>>

\* -------------------------------------------------- AsyncPty::poll_write
PollWrite ==
    /\ session = "Open"
    /\ running = Idle
    /\ wr.kind = "write"
    /\ wr.st \in {"new", "pending"}
    /\ running' = [op |-> "write", pc |-> "wait"]
    /\ last' = Step("poll_write", NoRes, <<>>)
    /\ UNCHANGED <<lifeVars, ready, waker, osVars, rd, rbuf, wr>>

\* line 66: futures::ready!(self.0.poll_write_ready(cx))?
WriteWait(werr) ==
    /\ running = [op |-> "write", pc |-> "wait"]
    /\ IF werr # "none" THEN
          /\ wr' = [wr EXCEPT !.st = "done", !.res = Err(werr)]
          /\ running' = Idle
          /\ waker' = waker
       ELSE IF ready[WriteInterest] THEN
          /\ running' = [op |-> "write", pc |-> "attempt"]
          /\ UNCHANGED <<wr, waker>>
       ELSE
          /\ waker' = [waker EXCEPT ![WriteInterest] = TRUE]
          /\ wr' = [wr EXCEPT !.st = "pending", !.res = Pending]
          /\ running' = Idle
    /\ last' = Step("write_wait", IF werr # "none" THEN Err(werr) ELSE NoRes, <<>>)
    /\ UNCHANGED <<lifeVars, ready, osVars, rd, rbuf>>

\* a write whose match drops the count, as the match of poll_flush does
WriteResultNoCount(result) == IF result.k = "Ok" THEN Ok(0) ELSE result
\* line 68: Ok(result) => return Poll::Ready(result)
WriteResult(result) == result

\* lines 67-70: the guarded write of the whole payload
WriteAttempt ==
    /\ running = [op |-> "write", pc |-> "attempt"]
    /\ LET ret == OsWrite(wr.payload, outq, dev)
           bytes == SubSeq(wr.payload, 1, ret.n)
       IN  /\ outq' = outq \o bytes
           /\ last' = Step("write_attempt", ret, bytes)
           /\ IF IsWouldBlock(ret) THEN
                 /\ ready' = ClearReady(WriteInterest)
                 /\ running' = [op |-> "write", pc |-> "wait"]
                 /\ wr' = wr
              ELSE
                 \* Ok(result) => return Ready(result)
                 /\ wr' = [wr EXCEPT !.st = "done", !.res = WriteResult(ret)]
                 /\ running' = Idle
                 /\ ready' = ready
    /\ UNCHANGED <<lifeVars, waker, inq, produced, dev, slave, rd, rbuf>>

\* -------------------------------------------------- AsyncPty::poll_flush
PollFlush ==
    /\ session = "Open"
    /\ running = Idle
    /\ wr.kind = "flush"
    /\ wr.st \in {"new", "pending"}
    /\ running' = [op |-> "flush", pc |-> "wait"]
    /\ last' = Step("poll_flush", NoRes, <<>>)
    /\ UNCHANGED <<lifeVars, ready, waker, osVars, rd, rbuf, wr>>

\* line 79: futures::ready!(self.0.poll_write_ready(cx))?
FlushWait(werr) ==
    /\ running = [op |-> "flush", pc |-> "wait"]
    /\ IF werr # "none" THEN
          /\ wr' = [wr EXCEPT !.st = "done", !.res = Err(werr)]
          /\ running' = Idle
          /\ waker' = waker
       ELSE IF ready[FlushInterest] THEN
          /\ running' = [op |-> "flush", pc |-> "attempt"]
          /\ UNCHANGED <<wr, waker>>
       ELSE
          /\ waker' = [waker EXCEPT ![FlushInterest] = TRUE]
          /\ wr' = [wr EXCEPT !.st = "pending", !.res = Pending]
          /\ running' = Idle
    /\ last' = Step("flush_wait", IF werr # "none" THEN Err(werr) ELSE NoRes, <<>>)
    /\ UNCHANGED <<lifeVars, ready, osVars, rd, rbuf>>

\* line 81: Ok(_) => return Poll::Ready(Ok(())). The pattern matches every
\* value try_io passes through, Ok(Err(e)) included.
FlushResult(result) == Ok(0)

\* lines 80-83: the guarded flush; ret is what the flush primitive returns.
FlushAttempt(ret) ==
    /\ running = [op |-> "flush", pc |-> "attempt"]
    /\ last' = Step("flush_attempt", ret, <<>>)
    /\ IF IsWouldBlock(ret) THEN
          /\ ready' = ClearReady(FlushInterest)
          /\ running' = [op |-> "flush", pc |-> "wait"]
          /\ wr' = wr
       ELSE
          /\ wr' = [wr EXCEPT !.st = "done", !.res = FlushResult(ret)]
          /\ running' = Idle
          /\ ready' = ready
    /\ UNCHANGED <<lifeVars, waker, osVars, rd, rbuf>>

\* --------------------------------------------------------- cancellation
\* The caller drops the future of a suspended read: the call is gone, the
\* waker it stored stays with the reactor until an event takes it.
CancelRead ==
    /\ session = "Open"
    /\ running = Idle
    /\ rd.st = "pending"
    /\ rd' = [st |-> "none", res |-> NoRes]
    /\ last' = Step("cancel_read", NoRes, <<>>)
    /\ UNCHANGED <<lifeVars, reactorVars, osVars, rbuf, wr, running>>

\* The caller drops the future of a suspended write or flush.
CancelWrite ==
    /\ session = "Open"
    /\ running = Idle
    /\ wr.st = "pending"
    /\ wr' = [kind |-> "none", st |-> "none", res |-> NoRes, payload |-> <<>>]
    /\ last' = Step("cancel_write", NoRes, <<>>)
    /\ UNCHANGED <<lifeVars, reactorVars, osVars, rd, rbuf, running>>

\* ----------------------------------------------- AsyncPty::poll_shutdown
\* a shutdown that closes the descriptor
PollShutdownClose ==
    /\ session = "Open"
    /\ running = Idle
    /\ fd' = [fd EXCEPT !.state = "closed", !.closes = fd.closes + 1]
    /\ last' = Step("poll_shutdown", Ok(0), <<>>)
    /\ UNCHANGED <<session, ctor, reg, reactorVars, osVars, rd, rbuf, wr,
                   running>>

\* lines 87-92: Poll::Ready(Ok(())), nothing else
PollShutdown ==
    /\ session = "Open"
    /\ running = Idle
    /\ last' = Step("poll_shutdown", Ok(0), <<>>)
    /\ UNCHANGED <<lifeVars, reactorVars, osVars, rd, rbuf, wr, running>>

\* --------------------------------------------------------- environment
\* The reactor reports the descriptor ready for direction d (an edge of
\* the OS state or a spurious report) and wakes the stored waker.
Event(d) ==
    /\ reg.registered
    /\ ~ready[d] \/ waker[d]
    /\ ready' = [ready EXCEPT ![d] = TRUE]
    /\ waker' = [waker EXCEPT ![d] = FALSE]
    /\ last' = Step("event", NoRes, <<>>)
    /\ UNCHANGED <<lifeVars, osVars, rd, rbuf, wr, running>>

\* The slave side writes its next k bytes; byte i of the stream is i.
SlaveWrite(k) ==
    /\ session = "Open"
    /\ dev = "ok"
    /\ produced + k <= MaxBytes
    /\ inq' = inq \o [i \in 1..k |-> produced + i]
    /\ produced' = produced + k
    /\ last' = Step("slave_write", NoRes, <<>>)
    /\ UNCHANGED <<lifeVars, reactorVars, dev, outq, slave, rd, rbuf, wr,
                   running>>

\* The slave side consumes what the kernel accepted from the master.
SlaveRead ==
    /\ session = "Open"
    /\ outq # <<>>
    /\ outq' = <<>>
    /\ last' = Step("slave_read", NoRes, <<>>)
    /\ UNCHANGED <<lifeVars, reactorVars, inq, produced, dev, slave, rd, rbuf, wr,
                   running>>

\* The last slave handle is closed: reads past the queued data see
\* end-of-stream (how = "eof") or a hang-up error (how = "err").
SlaveClose(how) ==
    /\ session = "Open"
    /\ dev = "ok"
    /\ dev' = how
    /\ last' = Step("slave_close", NoRes, <<>>)
    /\ UNCHANGED <<lifeVars, reactorVars, inq, produced, outq, slave, rd, rbuf, wr,
                   running>>

\* ---------------------------------------------------- Pty::pts / resize
\* Most slave handles opened over a run.
MaxOpens == 2
Sizes == { <<24, 80>>, <<40, 132>> }

\* a pts that hands out the handle of an earlier call again
PtsCached(openOk) ==
    /\ session = "Open"
    /\ running = Idle
    /\ slave.opens < MaxOpens
    /\ IF slave.handles > 0
       THEN /\ slave' = slave
            /\ last' = Step("pts", Ok(0), <<>>)
       ELSE IF openOk /\ slave.node
       THEN /\ slave' = [slave EXCEPT !.opens = slave.opens + 1,
                                      !.handles = slave.handles + 1]
            /\ last' = Step("pts", Ok(0), <<>>)
       ELSE /\ slave' = [slave EXCEPT !.opens = slave.opens + 1]
            /\ last' = Step("pts", Err("ENOENT"), <<>>)
    /\ UNCHANGED <<lifeVars, reactorVars, inq, produced, dev, outq, rd, rbuf,
                   wr, running>>

\* lines 142-149: OpenOptions::new().read(true).write(true).open(ptsname).
\* Every call opens; the open succeeds when the device node exists and the
\* OS grants it (openOk).
Pts(openOk) ==
    /\ session = "Open"
    /\ running = Idle
    /\ slave.opens < MaxOpens
    /\ IF openOk /\ slave.node
       THEN /\ slave' = [slave EXCEPT !.opens = slave.opens + 1,
                                      !.handles = slave.handles + 1]
            /\ last' = Step("pts", Ok(0), <<>>)
       ELSE /\ slave' = [slave EXCEPT !.opens = slave.opens + 1]
            /\ last' = Step("pts",
                            Err(IF slave.node THEN "EACCES" ELSE "ENOENT"),
                            <<>>)
    /\ UNCHANGED <<lifeVars, reactorVars, inq, produced, dev, outq, rd, rbuf,
                   wr, running>>

\* a resize that hands rows and columns over in the wrong order
TermSizeSwapped(size) == <<size[2], size[1]>>
\* line 152: the size is forwarded as given
TermSize(size) == size

\* lines 151-154: set_term_size(self.pt().as_raw_fd(), size); ok is whether
\* the OS call succeeds
Resize(size, ok) ==
    /\ session = "Open"
    /\ running = Idle
    /\ IF ok
       THEN /\ slave' = [slave EXCEPT !.size = TermSize(size)]
            /\ last' = Step("resize", Ok(0), size)
       ELSE /\ slave' = slave
            /\ last' = Step("resize", Err("EINVAL"), size)
    /\ UNCHANGED <<lifeVars, reactorVars, inq, produced, dev, outq, rd, rbuf,
                   wr, running>>

\* The slave device node is removed from outside the program.
DestroyPty ==
    /\ session = "Open"
    /\ slave.node
    /\ slave' = [slave EXCEPT !.node = FALSE]
    /\ last' = Step("destroy_pty", NoRes, <<>>)
    /\ UNCHANGED <<lifeVars, reactorVars, inq, produced, dev, outq, rd, rbuf,
                   wr, running>>

\* ------------------------------------------------------- specifications
FailStages == {"none", "create_pt", "F_GETFL", "F_SETFL", "register"}
\* a session that was constructed with every step succeeding
NewOk == New({"O_RDWR", "O_NOCTTY", "O_LARGEFILE"}, "none")

\* Read and write side of one stream, polled in any interleaving.
Next ==
    \/ NewOk
    \/ StartRead(MaxCap, 0)
    \/ StartWrite([i \in 1..MaxPayload |-> 10 + i])
    \/ StartFlush
    \/ PollRead
    \/ \E werr \in {"none"} \cup WaitErrs : ReadWait(werr)
    \/ ReadAttempt
    \/ PollWrite
    \/ \E werr \in {"none"} \cup WaitErrs : WriteWait(werr)
    \/ WriteAttempt
    \/ PollFlush
    \/ \E werr \in {"none"} \cup WaitErrs : FlushWait(werr)
    \/ \E ret \in FlushRets : FlushAttempt(ret)
    \/ PollShutdown
    \/ CancelRead
    \/ CancelWrite
    \/ \E d \in Dirs : Event(d)
    \/ SlaveWrite(1)
    \/ SlaveRead
    \/ \E how \in {"eof", "err"} : SlaveClose(how)

Spec == Init /\ [][Next]_vars

\* the descriptor is readable for the OS: data is queued or the slave is gone
OsReadable == inq # <<>> \/ dev # "ok"

\* the descriptor is writable for the OS: the kernel has room, or the write
\* fails at once
OsWritable == Len(outq) < MaxSpace \/ dev = "err"

\* the task of a call is due for a poll: the future is new, or the waker it
\* stored was taken by a reactor event
Woken(st, d) == st = "new" \/ ~waker[d]

\* a report of the reactor for a direction in which the descriptor is not
\* ready for the OS
SpuriousEvent ==
    \/ Event("r") /\ ~OsReadable
    \/ Event("w") /\ ~OsWritable

\* The executor polls a task that is due, however often other polls run in
\* between, and runs a poll to its return; the reactor reports a descriptor
\* that is ready for the OS and makes only finitely many spurious reports;
\* a flush does not answer would-block for ever.
FairSpec ==
    /\ Spec
    /\ <>[][~SpuriousEvent]_vars
    /\ SF_vars(PollRead /\ Woken(rd.st, "r"))
    /\ SF_vars(PollWrite /\ Woken(wr.st, "w"))
    /\ SF_vars(PollFlush /\ Woken(wr.st, "w"))
    /\ WF_vars(ReadWait("none"))
    /\ WF_vars(ReadAttempt)
    /\ WF_vars(WriteWait("none"))
    /\ WF_vars(WriteAttempt)
    /\ WF_vars(FlushWait("none"))
    /\ SF_vars(\E ret \in FlushRets \ {Err(EAGAIN)} : FlushAttempt(ret))
    /\ WF_vars(Event("r") /\ OsReadable)
    /\ WF_vars(Event("w") /\ OsWritable)

\* The read side alone, over every buffer and every amount of data.
NextRead ==
    \/ NewOk
    \/ \E cap \in 0..MaxCap : \E pre \in 0..cap : StartRead(cap, pre)
    \/ PollRead
    \/ \E werr \in {"none"} \cup WaitErrs : ReadWait(werr)
    \/ ReadAttempt
    \/ Event("r")
    \/ \E k \in 1..MaxBytes : SlaveWrite(k)
    \/ \E how \in {"eof", "err"} : SlaveClose(how)

SpecRead == Init /\ [][NextRead]_vars

\* The executor runs a poll to its return, polls a new future and re-polls
\* a suspended one whose waker was invoked; the reactor reports a readable
\* descriptor.
FairSpecRead ==
    /\ SpecRead
    /\ WF_vars(PollRead /\ (rd.st = "new" \/ ~waker["r"]))
    /\ WF_vars(ReadWait("none"))
    /\ WF_vars(ReadAttempt)
    /\ WF_vars(Event("r") /\ OsReadable)

\* The write side alone: write and flush over every payload.
NextWrite ==
    \/ NewOk
    \/ \E p \in Payloads : StartWrite(p)
    \/ StartFlush
    \/ PollWrite
    \/ \E werr \in {"none"} \cup WaitErrs : WriteWait(werr)
    \/ WriteAttempt
    \/ PollFlush
    \/ \E werr \in {"none"} \cup WaitErrs : FlushWait(werr)
    \/ \E ret \in FlushRets : FlushAttempt(ret)
    \/ Event("w")
    \/ SlaveRead
    \/ SlaveClose("err")

SpecWrite == Init /\ [][NextWrite]_vars

\* The life of a session: construction with every failure, the lifecycle
\* operations, destruction.
NextLife ==
    \/ \E f0 \in OpenerFlagSets : \E fail \in FailStages : New(f0, fail)
    \/ Drop
    \/ \E openOk \in BOOLEAN : Pts(openOk)
    \/ \E size \in Sizes : \E ok \in BOOLEAN : Resize(size, ok)
    \/ DestroyPty

SpecLife == Init /\ [][NextLife]_vars

TypeOK ==
    /\ session \in {"None", "Open", "Failed", "Closed"}
    /\ fd.closes \in 0..2
    /\ rbuf.filled <= Len(rbuf.data)
    /\ Len(rbuf.data) <= rbuf.cap
    /\ Len(outq) <= MaxSpace
    /\ Len(inq) <= MaxBytes

\* ================================================================ claims
InFlight(st) == st \in {"new", "pending"}
Definitive(ret) == ret.k = "Err" /\ ret.e # EAGAIN

\* A step of the running poll: the wait or the attempt of op was executed.
PollStep(op, pc) == running = At(op, pc) /\ running' # running

\* C1: a read suspended on read-readiness never holds back a write or a
\* flush, and a suspended write or flush never holds back a read: the
\* readiness wait of an operation passes whenever the reactor believes its
\* own direction ready, whatever the state of the other direction, and an
\* attempt that the OS does not answer with would-block completes the call
\* while the call of the other direction is left as it was.
C1_Independent ==
    [][ /\ (PollStep("write", "wait") /\ ready["w"] /\ last'.ret.k # "Err")
              => running' = At("write", "attempt")
        /\ (PollStep("flush", "wait") /\ ready["w"] /\ last'.ret.k # "Err")
              => running' = At("flush", "attempt")
        /\ (PollStep("read", "wait") /\ ready["r"] /\ last'.ret.k # "Err")
              => running' = At("read", "attempt")
        /\ (PollStep("write", "attempt") /\ last'.ret # Err(EAGAIN))
              => (wr'.st = "done" /\ rd' = rd)
        /\ (PollStep("flush", "attempt") /\ last'.ret # Err(EAGAIN))
              => (wr'.st = "done" /\ rd' = rd)
        /\ (PollStep("read", "attempt") /\ last'.ret # Err(EAGAIN))
              => (rd'.st = "done" /\ wr' = wr)
      ]_vars

\* a write completed while the read is suspended and not read-ready
C1_Witness ==
    /\ rd.st = "pending" /\ ~ready["r"] /\ waker["r"]
    /\ wr.kind = "write" /\ wr.st = "done" /\ wr.res.k = "Ok"
    /\ last.op = "write_attempt"

\* C2: would-block never reaches the caller of read, write or flush: no
\* result is the would-block error, and right after an attempt that the OS
\* answered with would-block the poll is back at its readiness wait with the
\* call still in flight.
C2_NoWouldBlock ==
    /\ rd.res # Err(EAGAIN)
    /\ wr.res # Err(EAGAIN)
    /\ rd.st = "done" => rd.res.k \in {"Ok", "Err", "Panic"}
    /\ wr.st = "done" => wr.res.k \in {"Ok", "Err"}
    /\ (last.op = "read_attempt" /\ last.ret = Err(EAGAIN))
          => (running = At("read", "wait") /\ InFlight(rd.st))
    /\ (last.op = "write_attempt" /\ last.ret = Err(EAGAIN))
          => (running = At("write", "wait") /\ InFlight(wr.st))
    /\ (last.op = "flush_attempt" /\ last.ret = Err(EAGAIN))
          => (running = At("flush", "wait") /\ InFlight(wr.st))

\* a poll_write went back to suspension after its write would have blocked
C2_Witness ==
    /\ wr.kind = "write" /\ wr.st = "pending" /\ wr.res = Pending
    /\ outq # <<>> /\ ~ready["w"] /\ running = Idle

\* C3: a read call never drops data: whenever the OS read returned N bytes
\* the call has completed with Ok(N) and the filled region of the caller's
\* buffer is exactly the bytes taken out of the descriptor, whatever the
\* capacity and the previous content of the buffer.
C3_ReadDeliversAll ==
    (last.op = "read_attempt" /\ last.ret.k = "Ok")
       => /\ rd.st = "done"
          /\ rd.res = Ok(last.ret.n)
          /\ Filled(rbuf) = last.moved

C5_ErrorsSurface ==
    /\ (last.op \in {"read_attempt", "read_wait"} /\ Definitive(last.ret))
          => (rd.st = "done" /\ rd.res = last.ret /\ running = Idle)
    /\ (last.op \in {"write_attempt", "write_wait"} /\ Definitive(last.ret))
          => (wr.st = "done" /\ wr.res = last.ret /\ running = Idle)

\* the OS read failed with EIO while a write is suspended
C5_Witness ==
    /\ last.op = "read_attempt" /\ last.ret = Err("EIO")
    /\ rd.res = Err("EIO")
    /\ wr.st = "pending"

\* C6: at end-of-stream the read completes with 0 bytes: the attempt whose
\* OS read returns 0 completes the call with Ok(0) and an empty filled
\* region, and (under the fairness of FairSpecRead) a read in flight on a
\* descriptor at end-of-stream does not stay suspended.
C6_AtEof ==
    (last.op = "read_attempt" /\ last.ret = Ok(0))
       => (rd.st = "done" /\ rd.res = Ok(0) /\ Filled(rbuf) = <<>>
           /\ running = Idle)

C6_EofCompletes ==
    /\ []C6_AtEof
    /\ (dev = "eof" /\ inq = <<>> /\ InFlight(rd.st)) ~> (rd.st = "done")

\* a read that was suspended completed with 0 bytes at end-of-stream
C6_Witness ==
    /\ last.op = "read_attempt" /\ last.ret = Ok(0)
    /\ dev = "eof" /\ rd.st = "done" /\ rd.res = Ok(0)
    /\ rbuf.cap > 0

\* C7: a write completes on its one successful OS write: the count it
\* returns is the count n of that write, 0 <= n <= length of the payload,
\* n is below the length when the payload exceeds the room of the kernel,
\* the kernel received exactly the first n bytes of the payload, and the
\* poll returns without a second attempt.
C7_ShortWrite ==
    [][ (PollStep("write", "attempt") /\ last'.ret.k = "Ok")
          => /\ wr'.st = "done" /\ running' = Idle
             /\ wr'.res.k = "Ok"
             /\ wr'.res.n \in 0..Len(wr.payload)
             /\ wr'.res.n = last'.ret.n
             /\ outq' = outq \o SubSeq(wr.payload, 1, wr'.res.n)
             /\ (Len(wr.payload) > MaxSpace - Len(outq))
                   => wr'.res.n < Len(wr.payload)
      ]_vars

\* a short write: fewer bytes accepted than the payload holds
C7_Witness ==
    /\ last.op = "write_attempt" /\ last.ret.k = "Ok"
    /\ wr.st = "done" /\ wr.res.n > 0 /\ wr.res.n < Len(wr.payload)

\* C8: shutdown returns Ready(Ok) at once in every state of the stream and
\* changes nothing: descriptor, registration, readiness, wakers, the OS
\* side and the calls in flight are as before.
C8_ShutdownNoOp ==
    [][ last'.op = "poll_shutdown"
          => /\ last'.ret = Ok(0)
             /\ UNCHANGED <<session, fd, ctor, reg, ready, waker, slave, inq,
                            produced, dev, outq, rd, rbuf, wr, running>>
      ]_vars

\* shutdown returned while a read and a write are suspended
C8_Witness ==
    /\ last.op = "poll_shutdown"
    /\ rd.st = "pending" /\ wr.st = "pending"
    /\ fd.state = "open"

\* C9: every descriptor the opener returned is released exactly once: it
\* is never closed twice, and once construction has failed or the session
\* is gone no descriptor is left open.
C9_ReleasedOnce ==
    /\ fd.closes <= 1
    /\ session \in {"Failed", "Closed"} => fd.state # "open"
    /\ fd.state = "open" => fd.owner # "none"

\* C10: after a successful construct the descriptor's flags are the flags
\* the opener left on it plus O_NONBLOCK, and the registration with the
\* reactor saw the descriptor with O_NONBLOCK already set.
C10_NonblockAdded ==
    session = "Open"
       => /\ fd.flags = ctor.opener \cup {O_NONBLOCK}
          /\ reg.registered
          /\ O_NONBLOCK \in reg.flags
          /\ reg.flags = fd.flags

\* a session whose opener flags held a settable flag and an unnamed one
C10_Witness ==
    /\ session = "Open"
    /\ "O_APPEND" \in ctor.opener /\ O_NONBLOCK \notin ctor.opener
    /\ "O_LARGEFILE" \in fd.flags

\* C11: construct yields a session exactly when create_pt, F_GETFL, F_SETFL
\* and the registration all succeed, in this order; when a step fails,
\* construct returns the error of that step, has made the calls up to it
\* and none after it, and there is no session and no registration.
C11_AllOrNothing ==
    session # "None"
       => /\ \A i \in 1..Len(ctor.log) : ctor.log[i] = Stages[i]
          /\ (session \in {"Open", "Closed"}) <=> (ctor.err = "none")
          /\ ctor.err = "none" => ctor.log = Stages
          /\ session = "Open" => (reg.registered /\ fd.state = "open")
          /\ ctor.err # "none"
                => /\ session = "Failed"
                   /\ ctor.log # <<>>
                   /\ ctor.log[Len(ctor.log)] = ctor.err
                   /\ ~reg.registered
          /\ last.op = "new"
                => last.ret = IF ctor.err = "none" THEN Ok(0)
                              ELSE Err(ctor.err)

\* construct failed at F_SETFL: three calls made, no registration
C11_Witness ==
    /\ session = "Failed" /\ ctor.err = "F_SETFL"
    /\ ctor.log = <<"create_pt", "F_GETFL", "F_SETFL">>
    /\ ~reg.registered

\* C12: every call of pts performs one open of the slave path: it returns
\* Ok with one more handle when the open succeeds and an error, at once,
\* when it fails; in both cases the session, the master descriptor and its
\* flags, the registration and the readiness state are unchanged.
C12_FreshOpen ==
    [][ last'.op = "pts"
          => /\ slave'.opens = slave.opens + 1
             /\ last'.ret.k \in {"Ok", "Err"}
             /\ last'.ret.k = "Ok" => (slave.node
                                       /\ slave'.handles = slave.handles + 1)
             /\ last'.ret.k = "Err" => slave'.handles = slave.handles
             /\ ~slave.node => last'.ret.k = "Err"
             /\ slave'.node = slave.node /\ slave'.size = slave.size
             /\ UNCHANGED <<session, fd, ctor, reg, ready, waker, inq,
                            produced, dev, outq, rd, rbuf, wr, running>>
      ]_vars

\* a second call succeeded after the first one failed
C12_Witness ==
    /\ last.op = "pts" /\ last.ret.k = "Ok"
    /\ slave.opens = 2 /\ slave.handles = 1

\* C13: a successful resize leaves the terminal size equal to the size
\* given, a failed one returns an error and leaves it as it was, nothing but
\* a successful resize changes it, and the session keeps no size.
C13_ResizeExact ==
    [][ /\ last'.op = "resize"
           => /\ last'.ret.k \in {"Ok", "Err"}
              /\ last'.ret.k = "Ok" => slave'.size = last'.moved
              /\ last'.ret.k = "Err" => slave'.size = slave.size
              /\ UNCHANGED <<session, fd, ctor, reg, ready, waker>>
        /\ slave'.size # slave.size
           => (last'.op = "resize" /\ last'.ret.k = "Ok")
      ]_vars

\* a failed resize after a successful one: the size is still the first one
C13_Witness ==
    /\ last.op = "resize" /\ last.ret.k = "Err"
    /\ last.moved = <<40, 132>> /\ slave.size = <<24, 80>>

PollOps == {"read", "write", "flush"}
DirOf(op) == IF op = "read" THEN "r" ELSE "w"
AttemptOf(op) == IF op = "read" THEN "read_attempt"
                 ELSE IF op = "write" THEN "write_attempt"
                 ELSE "flush_attempt"
CallSt(op) == IF op = "read" THEN rd.st ELSE wr.st
CallRes(op) == IF op = "read" THEN rd.res ELSE wr.res

\* C14 as stated: after an attempt that the OS answered with would-block
\* the reactor still believes the direction ready, and the poll is back at
\* its readiness wait.
C14_ReadinessKept ==
    \A op \in PollOps :
       (last.op = AttemptOf(op) /\ last.ret = Err(EAGAIN))
          => (ready[DirOf(op)] /\ running = At(op, "wait"))

\* C14 amended: an attempt answered with would-block clears the reactor's
\* belief for the direction of the guard, and only that one; registration
\* and wakers stay, and the poll is back at its readiness wait.
C14_ReadinessCleared ==
    [][ \A op \in PollOps :
          (PollStep(op, "attempt") /\ last'.ret = Err(EAGAIN))
             => /\ ready[DirOf(op)]
                /\ ready' = [ready EXCEPT ![DirOf(op)] = FALSE]
                /\ reg' = reg /\ waker' = waker
                /\ running' = At(op, "wait")
      ]_vars

\* the read would have blocked: read belief cleared, write belief intact
C14_Witness ==
    /\ last.op = "read_attempt" /\ last.ret = Err(EAGAIN)
    /\ ~ready["r"] /\ ready["w"]
    /\ running = At("read", "wait")

\* C15: a poll reaches its OS attempt only from its own readiness wait and
\* only when the reactor believes the operation's own direction ready (read:
\* read-readiness, write and flush: write-readiness); every OS call is such
\* an attempt; a poll returns Pending only from a readiness wait that found
\* its direction not ready; shutdown returns Ready at once.
C15_WaitBeforeAttempt ==
    [][ /\ \A op \in PollOps :
           /\ (running' = At(op, "attempt") /\ running' # running)
                 => (running = At(op, "wait") /\ ready[DirOf(op)]
                     /\ ready' = ready)
           /\ (last'.op = AttemptOf(op) /\ last' # last)
                 => running = At(op, "attempt")
           /\ (running.op = op /\ running' = Idle
                 /\ CallRes(op)' = Pending)
                 => (running = At(op, "wait") /\ ~ready[DirOf(op)]
                     /\ CallSt(op)' = "pending")
        /\ (inq' # inq \/ outq' # outq)
              => last'.op \in {"read_attempt", "write_attempt",
                               "slave_write", "slave_read"}
        /\ last'.op = "poll_shutdown"
              => (last'.ret = Ok(0) /\ running' = Idle /\ rd' = rd /\ wr' = wr)
      ]_vars

\* a flush at its attempt with only the write direction ready, the read
\* suspended
C15_Witness ==
    /\ running = At("flush", "attempt")
    /\ ready["w"] /\ ~ready["r"]
    /\ rd.st = "pending"

\* C16: one read attempt takes at most one chunk from the head of the
\* descriptor's queue and leaves the rest queued; the count a read returns
\* and the filled region are at most one chunk, whatever the capacity of
\* the buffer; nothing but a read attempt takes bytes out.
C16_OneChunk ==
    [][ /\ PollStep("read", "attempt")
           => /\ inq = last'.moved \o inq'
              /\ Len(last'.moved) <= ChunkSize
              /\ rd'.res.n <= ChunkSize
              /\ rd'.res.k = "Ok"
                    => (rd'.res.n = Len(last'.moved)
                        /\ rbuf'.filled <= ChunkSize)
        /\ Len(inq') < Len(inq) => PollStep("read", "attempt")
      ]_vars

\* a read into a buffer larger than a chunk returned one chunk and left
\* data queued
C16_Witness ==
    /\ last.op = "read_attempt" /\ rd.res = Ok(ChunkSize)
    /\ rbuf.cap > ChunkSize /\ inq # <<>>
    /\ Len(last.moved) = ChunkSize

C18_NoLostWakeup ==
    /\ [][ /\ \A op \in PollOps :
                (running.op = op /\ running' = Idle
                    /\ CallRes(op)' = Pending)
                   => waker'[DirOf(op)]
           /\ \A d \in Dirs :
                (waker[d] /\ ~waker'[d]) => ready'[d]
         ]_vars
    /\ (InFlight(rd.st) /\ OsReadable) ~> ~InFlight(rd.st)
    /\ (InFlight(wr.st) /\ OsWritable) ~> ~InFlight(wr.st)

\* a read went back to suspension after a would-block retry while a write
\* is suspended with its own waker
C18_Witness ==
    /\ last.op = "read_wait" /\ rd.st = "pending" /\ waker["r"]
    /\ wr.kind = "write" /\ wr.st = "pending" /\ waker["w"]
    /\ produced > 0 /\ inq = <<>>

\* C19: cancellation safety of read and write. An attempt that leaves its
\* call in flight has moved no byte and has not touched the caller's
\* buffer; an attempt that moved bytes ends the poll with the call done; a
\* readiness wait moves nothing. So a suspended call has transferred
\* nothing, and dropping it changes neither the descriptor, its queues, the
\* readiness belief nor the other call.
C19_CancelSafe ==
    [][ /\ \A op \in {"read", "write"} :
           /\ (PollStep(op, "attempt") /\ InFlight(CallSt(op)'))
                 => (inq' = inq /\ outq' = outq /\ rbuf' = rbuf
                     /\ last'.moved = <<>>)
           /\ (PollStep(op, "attempt") /\ last'.moved # <<>>)
                 => (CallSt(op)' = "done" /\ running' = Idle)
           /\ PollStep(op, "wait")
                 => (inq' = inq /\ outq' = outq /\ rbuf' = rbuf)
        /\ last'.op = "cancel_read"
              => (rd'.st = "none" /\ wr' = wr
                  /\ UNCHANGED <<session, fd, reg, ready, inq, produced,
                                 dev, outq, slave, rbuf, running>>)
        /\ last'.op = "cancel_write"
              => (wr'.st = "none" /\ rd' = rd
                  /\ UNCHANGED <<session, fd, reg, ready, inq, produced,
                                 dev, outq, slave, rbuf, running>>)
      ]_vars

\* a suspended read was dropped after data arrived: every byte the slave
\* wrote is still queued
C19_Witness ==
    /\ last.op = "cancel_read" /\ rd.st = "none"
    /\ inq # <<>> /\ Len(inq) = produced

====
